---- MODULE Spec2Model ----
(***************************************************************************)
(* feature-pilot-api: the proposal-to-patch pipeline.                      *)
(*                                                                         *)
(*   ai_agent/agent.py     FeedbackToFeatureAgent (analyze_feedback,       *)
(*                         validate_proposal, find_file_with_code,         *)
(*                         apply_changes)                                  *)
(*   ai_agent/services.py  AIAnalysisService                               *)
(*   ai_agent/tasks.py     the Celery tasks with their retries             *)
(*   ai_agent/api.py       the FastAPI background jobs                     *)
(*   ai_agent/signals.py   the post_save receivers                         *)
(*   api/v1/proposals/views.py  confirm_proposal                           *)
(*                                                                         *)
(* Text is a sequence of characters; "\n" is the line break.  A file of    *)
(* the hosted repository is [exists, content]; its blob sha is a function  *)
(* of its content, so two reads carry the same sha exactly when they read  *)
(* the same content.                                                       *)
(***************************************************************************)
EXTENDS Integers, Sequences, FiniteSets, Bags, TLC

VARIABLES
    \* ---- AIAnalysisService.apply_proposal_changes / apply_changes ----
    proposal,       \* proposal_data['proposed_changes'] of the stored row
    change_indices, \* the change_indices argument: [given, idx]
    pc,             \* position of the apply unit
    changes,        \* agent_proposal['proposed_changes'] (after filtering)
    i,              \* 1-based position of the for loop of apply_changes
    file_path,      \* the local file_path of apply_changes: [bound, v]
    cur,            \* the other locals of the current iteration
    results,        \* the local results of apply_changes
    raised,         \* apply_changes left by an exception
    ret,            \* what apply_proposal_changes returned
    row,            \* the Proposal row the service holds
    main,           \* the default branch: path -> [exists, content]
    branches,       \* the refs created, each with the file of its change
    pulls,          \* the pull requests opened
    clock,          \* datetime.now() to the second
    writes,         \* writes of other actors to the default branch so far
    \* ---- the records, the triggers and the units of work ----
    feedbacks,      \* Feedback rows created
    rows,           \* the Proposal table: rows[id]
    queue,          \* the Celery messages not yet taken (a bag)
    worker,         \* the task the Celery worker is executing
    views,          \* the confirm_proposal requests in progress
    job,            \* the FastAPI background job in progress
    units,          \* the apply units that ended, with their attempts
    budget,          \* requests and redeliveries made so far
    \* ---- AIAnalysisService.analyze_feedback / agent.analyze_feedback ----
    feedback_text,  \* the feedback text
    response,       \* result.get("output", ""), as tokens
    json_str,       \* json_match.group(), then the cleaned string
    doc,            \* the dict analyze_feedback returns
    apc,            \* the position in analyze_feedback
    escaped,        \* an exception left the agent's analyze_feedback
    \* ---- single calls of the pure parts ----
    fn,             \* which function is called
    returned,       \* the call has returned
    edit_content,   \* current_content of the edit
    edit_change,    \* the change item of the edit
    edit_out,       \* new_content, or the IndexError
    val_document,   \* the proposal handed to validate_proposal
    val_out,        \* what validate_proposal returned
    find_tree,      \* the default branch find_file_with_code searches
    find_unreadable,\* the paths whose read fails
    find_snippet,   \* code_snippet
    find_out,       \* what find_file_with_code returned
    list_tree,      \* the directories list_all_files walks
    list_ends,      \* how get_contents ends for each directory
    list_out,       \* what list_all_files returned, or that it raised
    \* ---- the construction of the services in one process ----
    os_environ,     \* os.environ: GITHUB_TOKEN and GITHUB_REPO
    services,       \* per thread: the position and the agent's fields
    accesses        \* the gateway calls made: by whom, where, as whom

applyVars == <<proposal, change_indices, pc, changes, i, file_path, cur,
               results, raised, ret, row, main, branches, pulls, clock, writes>>

lifeVars == <<feedbacks, rows, queue, worker, views, job, units, budget>>

analyzeVars == <<feedback_text, response, json_str, doc, apc, escaped>>

pureVars == <<fn, returned, edit_content, edit_change, edit_out, val_document,
              val_out, find_tree, find_unreadable, find_snippet, find_out,
              list_tree, list_ends, list_out>>

serviceVars == <<os_environ, services, accesses>>

vars == <<applyVars, lifeVars, analyzeVars, pureVars, serviceVars>>

----------------------------------------------------------------------------
(* Bounds of the model.                                                    *)

MaxItems == 2
MaxClock == 1
MaxWrites == 1
MaxRows == 2
MaxViews == 2
MaxRequests == 1

MaxLen == 5

MaxText == 3

MaxThreads == 2

----------------------------------------------------------------------------
(* Text: str.splitlines, "\n".join, list.insert, list.__setitem__,         *)
(* list.__delitem__, str.replace and the in operator as Python computes    *)
(* them.                                                                   *)

NL == "\n"

Last(s) == s[Len(s)]

Front(s) == SubSeq(s, 1, Len(s) - 1)

RECURSIVE SplitNL(_)
\* str.split("\n"): the pieces between line breaks, the last one included.
SplitNL(s) ==
    IF \A k \in 1..Len(s) : s[k] # NL THEN <<s>>
    ELSE LET k == CHOOSE k \in 1..Len(s) :
                      s[k] = NL /\ \A j \in 1..(k - 1) : s[j] # NL
         IN  <<SubSeq(s, 1, k - 1)>> \o SplitNL(SubSeq(s, k + 1, Len(s)))

\* str.splitlines(): no piece for the text after a final line break, and
\* none at all for the empty text.
splitlines(s) ==
    LET p == SplitNL(s) IN IF Last(p) = <<>> THEN Front(p) ELSE p

RECURSIVE join(_)
\* "\n".join(lines)
join(lines) ==
    IF lines = <<>> THEN <<>>
    ELSE IF Len(lines) = 1 THEN lines[1]
    ELSE lines[1] \o <<NL>> \o join(Tail(lines))

\* Python's index normalisation of list.insert(index, x): a negative index
\* counts from the end, and the result is clamped into 0..len.
InsertIndex(n, index) ==
    LET k == IF index < 0 THEN index + n ELSE index
    IN  IF k < 0 THEN 0 ELSE IF k > n THEN n ELSE k

\* lines.insert(index, x), index 0-based
insert(lines, index, x) ==
    LET k == InsertIndex(Len(lines), index)
    IN  SubSeq(lines, 1, k) \o <<x>> \o SubSeq(lines, k + 1, Len(lines))

\* Python's index normalisation of lines[index]: a negative index counts
\* from the end; -1 here stands for IndexError.
ItemIndex(n, index) ==
    LET k == IF index < 0 THEN index + n ELSE index
    IN  IF k < 0 \/ k >= n THEN -1 ELSE k

\* lines[index] = x for an index ItemIndex accepts
setitem(lines, index, x) ==
    [lines EXCEPT ![ItemIndex(Len(lines), index) + 1] = x]

\* del lines[index] for an index ItemIndex accepts
delitem(lines, index) ==
    LET k == ItemIndex(Len(lines), index)
    IN  SubSeq(lines, 1, k) \o SubSeq(lines, k + 2, Len(lines))

\* old occurs in s at position k (1-based)
OccursAt(s, old, k) ==
    /\ k + Len(old) - 1 <= Len(s)
    /\ SubSeq(s, k, k + Len(old) - 1) = old

\* old in s
contains(s, old) == \E k \in 1..(Len(s) + 1) : OccursAt(s, old, k)

RECURSIVE Intersperse(_, _)
\* s.replace("", new) after its first insertion: new after every character
Intersperse(s, new) ==
    IF s = <<>> THEN <<>> ELSE <<Head(s)>> \o new \o Intersperse(Tail(s), new)

RECURSIVE ReplaceFrom(_, _, _)
\* s.replace(old, new) for a non-empty old: left to right, not overlapping
ReplaceFrom(s, old, new) ==
    IF s = <<>> THEN <<>>
    ELSE IF OccursAt(s, old, 1)
         THEN new \o ReplaceFrom(SubSeq(s, Len(old) + 1, Len(s)), old, new)
         ELSE <<Head(s)>> \o ReplaceFrom(Tail(s), old, new)

\* s.replace(old, new)
replace(s, old, new) ==
    IF old = <<>> THEN new \o Intersperse(s, new) ELSE ReplaceFrom(s, old, new)

----------------------------------------------------------------------------
(* The hosted repository and the inputs.                                   *)

Paths == {"f", "g"}

\* The order in which the recursive listing of the default branch yields
\* the paths.
PathOrder == <<"f", "g">>

NoFile == [exists |-> FALSE, content |-> <<>>]

File(c) == [exists |-> TRUE, content |-> c]

\* The default branch when the apply unit starts: f holds a, b, c on three
\* lines and g does not exist.
InitMain == [p \in Paths |->
                IF p = "f" THEN File(<<"a", NL, "b", NL, "c">>) ELSE NoFile]

\* What another actor may write to a path of the default branch.
OtherFiles == {NoFile, File(<<"q">>)}

\* dict access
Has(d, k) == k \in DOMAIN d

\* The change items the stored documents are drawn from.  A key that is
\* not in the DOMAIN of an item is a key the dict lacks.
ItemPool ==
    { [file_path |-> "g", change_type |-> "add", new_code |-> <<"X">>,
       reason |-> "r"],
      [file_path |-> "f", change_type |-> "modify", line_number |-> 0,
       new_code |-> <<"X">>, reason |-> "r"],
      [file_path |-> "f", change_type |-> "delete", line_number |-> 5,
       new_code |-> <<>>, reason |-> "r"],
      [file_path |-> "g", change_type |-> "modify", new_code |-> <<"X">>,
       reason |-> "r"],
      [file_path |-> "f", change_type |-> "rename", new_code |-> <<"X">>,
       reason |-> "r"],
      [change_type |-> "add", new_code |-> <<"X">>, reason |-> "r"],
      [file_path |-> "g", change_type |-> "modify", current_code |-> <<"b">>,
       new_code |-> <<"X">>, reason |-> "r"] }

Proposals == UNION {[1..n -> ItemPool] : n \in 0..MaxItems}

\* change_indices: None (what the task and the job pass), or a list.
NoIndices == [given |-> FALSE, idx |-> <<>>]

\* The items of the documents that are also applied through a list of
\* indices.
IndexedPool == {c \in ItemPool : Has(c, "line_number")}

\* Indices outside the list, and the first two items in reverse order.
IndexChoices(p) ==
    {NoIndices} \cup
    IF \A k \in 1..Len(p) : p[k] \in IndexedPool
    THEN {[given |-> TRUE, idx |-> <<-1, 7>>],
          [given |-> TRUE, idx |-> <<1, 0>>]}
    ELSE {}

\* change.get("current_code", "")
current_code_of(change) ==
    IF Has(change, "current_code") THEN change.current_code ELSE <<>>

----------------------------------------------------------------------------
(* The outcome strings.  A string is kept as the code points of its        *)
(* marker, the kind of message that follows and what the message names.    *)
(* agent.py writes the code points U+201A U+00FA U+00D6 before             *)
(* " PR Created: " and U+201A U+00F9 U+00E5 before its failure messages;   *)
(* services.py tests for U+2705 and U+274C.                                *)

AgentSuccessMarker == <<8218, 250, 214>>

AgentFailureMarker == <<8218, 249, 229>>

\* A faulty variant of ServiceSuccessMarker: the code points agent.py
\* writes before " PR Created: ".
SuccessMarkerAsWritten == <<8218, 250, 214>>

ServiceSuccessMarker == <<9989>>

ServiceFailureMarker == <<10060>>

\* result.startswith(marker)
startswith(result, marker) ==
    /\ Len(marker) <= Len(result.marker)
    /\ SubSeq(result.marker, 1, Len(marker)) = marker

\* pr.html_url of the pull request whose head is the branch
html_url(branch_name) == <<"pull">> \o branch_name

\* f"<marker> PR Created: {pr.html_url}"
SuccessOutcome(item, path, url) ==
    [marker |-> AgentSuccessMarker, kind |-> "pr", item |-> item,
     path |-> path, url |-> url]

\* The three failure strings: "File ... not found for ... operation.",
\* "Unknown change type: ..." and "Error applying change to ...: ...".
FailureOutcome(kind, item, path) ==
    [marker |-> AgentFailureMarker, kind |-> kind, item |-> item,
     path |-> path, url |-> <<>>]

----------------------------------------------------------------------------
(* FeedbackToFeatureAgent: the pure parts of apply_changes.                *)

NoPath == [bound |-> FALSE, v |-> ""]

Bound(p) == [bound |-> TRUE, v |-> p]

\* list_all_files() on the flat tree of this model: the files of the
\* default branch in listing order.
all_files(m) == SelectSeq(PathOrder, LAMBDA p : m[p].exists)

\* A faulty variant of find_file_with_code: a read that raises ends the
\* search instead of being passed over.
find_file_with_code_stopping(m, code_snippet, unreadable) ==
    LET files == all_files(m)
        stop == {k \in 1..Len(files) : files[k] \in unreadable}
        upto == IF stop = {} THEN Len(files)
                ELSE (CHOOSE k \in stop : \A j \in stop : k <= j) - 1
        hits == SelectSeq(SubSeq(files, 1, upto),
                    LAMBDA p : /\ code_snippet # <<>>
                               /\ contains(m[p].content, code_snippet))
    IN  IF hits = <<>> THEN NoPath ELSE Bound(hits[1])

\* find_file_with_code: the first listed file whose read succeeds and
\* whose content contains the snippet, for a non-empty snippet; None
\* otherwise.  A read that raises is passed over (agent.py lines 311-312).
find_file_with_code(m, code_snippet, unreadable) ==
    LET hits == SelectSeq(all_files(m),
                    LAMBDA p : /\ p \notin unreadable
                               /\ code_snippet # <<>>
                               /\ contains(m[p].content, code_snippet))
    IN  IF hits = <<>> THEN NoPath ELSE Bound(hits[1])

RequiredChangeFields == {"file_path", "change_type", "new_code", "reason"}

\* The four subscript reads at the head of the loop body succeed.
HasRequired(change) == \A k \in RequiredChangeFields : Has(change, k)

KnownTypes == {"add", "modify", "delete"}

\* change.get("line_number") is not None
HasLine(change) == Has(change, "line_number")

Computed(c) == [raises |-> FALSE, content |-> c]

IndexError == [raises |-> TRUE, content |-> <<>>]

\* lines[change["line_number"] - 1] = new_code; "\n".join(lines)
modify_line(current_content, line_number, new_code) ==
    LET lines == splitlines(current_content)
    IN  IF ItemIndex(Len(lines), line_number - 1) = -1 THEN IndexError
        ELSE Computed(join(setitem(lines, line_number - 1, new_code)))

\* del lines[change["line_number"] - 1]; "\n".join(lines)
delete_line(current_content, line_number) ==
    LET lines == splitlines(current_content)
    IN  IF ItemIndex(Len(lines), line_number - 1) = -1 THEN IndexError
        ELSE Computed(join(delitem(lines, line_number - 1)))

\* lines.insert(change["line_number"] - 1, new_code); "\n".join(lines)
add_line(current_content, line_number, new_code) ==
    Computed(join(insert(splitlines(current_content), line_number - 1,
                         new_code)))

\* The new_content of a change of a known type, or the IndexError of its
\* list operation.
new_content(change, current_content) ==
    LET new_code == change.new_code
        current_code == current_code_of(change)
    IN  CASE change.change_type = "add" ->
               IF HasLine(change)
               THEN add_line(current_content, change.line_number, new_code)
               ELSE Computed(current_content \o <<NL>> \o new_code)
          [] change.change_type = "modify" ->
               IF HasLine(change)
               THEN modify_line(current_content, change.line_number, new_code)
               ELSE Computed(replace(current_content, current_code, new_code))
          [] change.change_type = "delete" ->
               IF HasLine(change)
               THEN delete_line(current_content, change.line_number)
               ELSE Computed(replace(current_content, current_code, <<>>))

\* How a gateway call ends: normally, with a GithubException whose status
\* is not 404, or with another exception (the connection, the decoding).
CallEnds == {"ok", "github", "other"}

NoCur == [change_type |-> "", read |-> NoFile, new_content |-> <<>>,
          branch_name |-> <<>>, found_file |-> NoPath]

\* A faulty variant of resolved: the stated path is used whatever the
\* search returned.
resolved_as_stated(found_file, stated) == stated

\* agent.py lines 331-332: if found_file: file_path = found_file
resolved(found_file, stated) ==
    IF found_file.bound THEN found_file ELSE stated

\* The loop body of apply_changes up to the branch creation: where it
\* leaves for the change, with the file_path local as it then is.
\*   handler   an exception reached the except clause of the body
\*   notfound  the read failed and the body continued
\*   unknown   the change type is none of add, modify, delete
\*   go        new_content is computed
ReadStep(change, fp, m, eFind, eRead) ==
    LET fp1 == IF Has(change, "file_path") THEN Bound(change.file_path)
               ELSE fp
        cc == current_code_of(change)
        found_file == IF cc # <<>> /\ eFind = "ok"
                      THEN find_file_with_code(m, cc, {}) ELSE NoPath
        fp2 == resolved(found_file, fp1)
        file == m[fp2.v]
        absent == eRead = "ok" /\ ~file.exists
        current_content == IF absent THEN <<>> ELSE file.content
        read == IF absent THEN NoFile ELSE file
        out(kind, f) == [kind |-> kind, fp |-> f,
                         cur |-> [NoCur EXCEPT !.change_type =
                                     IF Has(change, "change_type")
                                     THEN change.change_type ELSE ""]]
    IN  IF ~HasRequired(change) THEN out("handler", fp1)
        ELSE IF cc # <<>> /\ eFind = "other" THEN out("handler", fp1)
        ELSE IF eRead = "other" THEN out("handler", fp2)
        ELSE IF eRead = "github" THEN out("notfound", fp2)
        ELSE IF absent /\ change.change_type # "add" THEN out("notfound", fp2)
        ELSE IF change.change_type \notin KnownTypes THEN out("unknown", fp2)
        ELSE LET nc == new_content(change, current_content)
             IN  IF nc.raises THEN out("handler", fp2)
                 ELSE [kind |-> "go", fp |-> fp2,
                       cur |-> [change_type |-> change.change_type,
                                read |-> read,
                                new_content |-> nc.content,
                                branch_name |-> <<>>,
                                found_file |-> found_file]]

\* Which gateway calls the body makes before it leaves: the failures
\* chosen for calls it does not make are no choices.
CallsMade(change, eFind, eRead) ==
    /\ ~HasRequired(change) => eFind = "ok" /\ eRead = "ok"
    /\ current_code_of(change) = <<>> => eFind = "ok"
    /\ eFind = "other" => eRead = "ok"

\* hash(file_path) % 10000, which is the same for the same path
hash(p) == p

\* f"ai-feedback-{timestamp}-{hash(file_path) % 10000}"
branch_name_of(timestamp, p) == <<timestamp, hash(p)>>

----------------------------------------------------------------------------
(* AIAnalysisService.apply_proposal_changes around apply_changes.          *)

NotReturned == [returned |-> FALSE, success |-> FALSE, message |-> "",
                pull_request_urls |-> <<>>, errors |-> <<>>,
                called |-> FALSE]

\* The dict apply_proposal_changes returns; called tells whether
\* self.agent.apply_changes was entered.
Returned(success, message, urls, errors, called) ==
    [returned |-> TRUE, success |-> success, message |-> message,
     pull_request_urls |-> urls, errors |-> errors, called |-> called]

\* Proposal.objects.create(feedback=..., proposal_data=..., status='pending')
\* with the defaults of the model.
NewRow(feedback) ==
    [feedback |-> feedback, status |-> "pending", is_confirmed |-> FALSE,
     applied_at |-> FALSE, pr_url |-> <<>>, proposal_data |-> "as created"]

\* The row as the first save of confirm_proposal leaves it.
confirmed(r) == [r EXCEPT !.is_confirmed = TRUE, !.status = "confirmed"]

ConfirmedRow == confirmed(NewRow(1))

RECURSIVE filtered(_, _)
\* for i in change_indices: if 0 <= i < len(proposed_changes): append
filtered(proposed_changes, idx) ==
    IF idx = <<>> THEN <<>>
    ELSE (IF 0 <= Head(idx) /\ Head(idx) < Len(proposed_changes)
          THEN <<proposed_changes[Head(idx) + 1]>> ELSE <<>>)
         \o filtered(proposed_changes, Tail(idx))

\* The guard and the filter at the head of apply_proposal_changes: the
\* list handed to the agent, or the explicit failure returned instead.
apply_proposal_changes_start ==
    /\ pc = "start"
    /\ LET proposed_changes ==
               IF change_indices.given /\ proposal # <<>>
               THEN filtered(proposal, change_indices.idx) ELSE proposal
       IN  IF proposal = <<>>
           THEN /\ ret' = Returned(FALSE, "No proposed changes found",
                                   <<>>, <<"No changes to apply">>, FALSE)
                /\ pc' = "done"
                /\ UNCHANGED <<changes, i>>
           ELSE IF proposed_changes = <<>>
           THEN /\ ret' = Returned(FALSE, "No valid changes found to apply",
                                   <<>>, <<"Invalid change indices">>, FALSE)
                /\ pc' = "done"
                /\ UNCHANGED <<changes, i>>
           ELSE /\ changes' = proposed_changes
                /\ i' = 1
                /\ pc' = "item"
                /\ UNCHANGED ret
    /\ UNCHANGED <<proposal, change_indices, file_path, cur, results, raised,
                   row, main, branches, pulls, clock, writes>>
    /\ UNCHANGED <<lifeVars, analyzeVars, pureVars, serviceVars>>

\* A faulty variant of Continue: the loop is left where it should go on (a break or
\* a return in the place of the continue).
ContinueAsBreak ==
    /\ i' = i + 1
    /\ pc' = "classify"
    /\ cur' = NoCur

\* The for loop goes on to the next change, or apply_changes returns.
Continue ==
    /\ i' = i + 1
    /\ pc' = IF i + 1 > Len(changes) THEN "classify" ELSE "item"
    /\ cur' = NoCur

\* The except clause of the loop body (agent.py line 419): the message
\* names the file_path local.  When nothing was ever bound to it the
\* f-string raises UnboundLocalError inside the handler, which leaves
\* apply_changes; the except clause of apply_proposal_changes (services.py
\* line 178) then returns the failure.
Handler(fp) ==
    IF fp.bound
    THEN /\ results' = Append(results, FailureOutcome("error", i, fp.v))
         /\ Continue
         /\ UNCHANGED <<raised, ret>>
    ELSE /\ raised' = TRUE
         /\ ret' = Returned(FALSE, "Failed to apply changes", <<>>,
                            <<"UnboundLocalError">>, TRUE)
         /\ pc' = "done"
         /\ UNCHANGED <<results, i, cur>>

\* agent.py lines 319-370: the fields, the file resolution, the read and
\* the computation of new_content.
apply_changes_read ==
    /\ pc = "item"
    /\ \E eFind \in CallEnds, eRead \in CallEnds :
          /\ CallsMade(changes[i], eFind, eRead)
          /\ LET step == ReadStep(changes[i], file_path, main, eFind, eRead)
             IN  /\ file_path' = step.fp
                 /\ CASE step.kind = "handler" -> Handler(step.fp)
                      [] step.kind \in {"notfound", "unknown"} ->
                           /\ results' = Append(results,
                                  FailureOutcome(step.kind, i, step.fp.v))
                           /\ Continue
                           /\ UNCHANGED <<raised, ret>>
                      [] step.kind = "go" ->
                           /\ cur' = step.cur
                           /\ pc' = "branch"
                           /\ UNCHANGED <<results, raised, ret, i>>
    /\ UNCHANGED <<proposal, change_indices, changes, row, main, branches,
                   pulls, clock, writes>>
    /\ UNCHANGED <<lifeVars, analyzeVars, pureVars, serviceVars>>

\* A faulty variant of update_sha: the sha of the file as the new branch holds it.
update_sha_of_branch(c, onBranch) == onBranch.content

\* The sha handed to update_file: file.sha, the sha of the content read.
update_sha(c, onBranch) == c.read.content

\* agent.py line 381: create_file when the read found no file and the type
\* is add (file is None), update_file otherwise.
commit_call(c) ==
    IF ~c.read.exists /\ c.change_type = "add"
    THEN "create_file" ELSE "update_file"

\* create_file succeeds when the branch has no such file; update_file when
\* the file of the branch has the sha given.
CommitAccepted(c, onBranch) ==
    IF commit_call(c) = "create_file"
    THEN ~onBranch.exists
    ELSE onBranch.exists /\ onBranch.content = update_sha(c, onBranch)

\* agent.py lines 372-378: the name from the clock, get_branch("main") and
\* create_git_ref from its head.  The ref must not exist yet.
apply_changes_branch ==
    /\ pc = "branch"
    /\ \E now \in {clock, clock + 1}, e \in {"ok", "other"} :
          /\ now <= MaxClock
          /\ clock' = now
          /\ LET name == branch_name_of(now, file_path.v)
             IN  IF e = "ok" /\ \A b \in branches : b.name # name
                 THEN /\ branches' = branches \cup
                            {[name |-> name, file |-> main[file_path.v], item |-> i,
                              path |-> file_path.v, committed |-> FALSE,
                              behind_at_create |->
                                  main[file_path.v] # cur.read,
                              behind_at_commit |-> FALSE,
                              call |-> "", sha |-> <<>>]}
                      /\ cur' = [cur EXCEPT !.branch_name = name]
                      /\ pc' = "commit"
                      /\ UNCHANGED <<results, raised, ret, i>>
                 ELSE Handler(file_path) /\ UNCHANGED branches
    /\ UNCHANGED <<proposal, change_indices, changes, file_path, row, main,
                   pulls, writes>>
    /\ UNCHANGED <<lifeVars, analyzeVars, pureVars, serviceVars>>

\* agent.py lines 380-395: create_file for an add of a file that was not
\* there, update_file with the sha of the read otherwise.
apply_changes_commit ==
    /\ pc = "commit"
    /\ \E e \in {"ok", "other"}, b \in branches :
          /\ b.name = cur.branch_name
          /\ IF e = "ok" /\ CommitAccepted(cur, b.file)
             THEN /\ branches' = (branches \ {b}) \cup
                        {[b EXCEPT !.file = File(cur.new_content),
                                   !.committed = TRUE,
                                   !.behind_at_commit =
                                       main[file_path.v] # cur.read,
                                   !.call = commit_call(cur),
                                   !.sha = IF commit_call(cur) = "update_file"
                                           THEN update_sha(cur, b.file)
                                           ELSE <<>>]}
                  /\ pc' = "pr"
                  /\ UNCHANGED <<results, raised, ret, i, cur>>
             ELSE Handler(file_path) /\ UNCHANGED branches
    /\ UNCHANGED <<proposal, change_indices, changes, file_path, row, main,
                   pulls, clock, writes>>
    /\ UNCHANGED <<lifeVars, analyzeVars, pureVars, serviceVars>>

\* A faulty variant of create_pull: the pull request is opened against
\* another base than main.
create_pull_into_other(head, item, path) ==
    [head |-> head, base |-> "develop", item |-> item, path |-> path]

\* agent.py lines 398-417: create_pull(title, body, head=branch_name,
\* base="main")
create_pull(head, item, path) ==
    [head |-> head, base |-> "main", item |-> item, path |-> path]

\* agent.py lines 397-418: create_pull from the branch to main, and the
\* success string with its URL.
apply_changes_pull ==
    /\ pc = "pr"
    /\ \E e \in {"ok", "other"} :
          /\ IF e = "ok"
             THEN /\ pulls' = pulls \cup
                        {create_pull(cur.branch_name, i, file_path.v)}
                  /\ results' = Append(results,
                         SuccessOutcome(i, file_path.v, html_url(cur.branch_name)))
                  /\ Continue
                  /\ UNCHANGED <<raised, ret>>
             ELSE Handler(file_path) /\ UNCHANGED pulls
    /\ UNCHANGED <<proposal, change_indices, changes, file_path, row, main,
                   branches, clock, writes>>
    /\ UNCHANGED <<lifeVars, analyzeVars, pureVars, serviceVars>>

\* services.py lines 146-152: the results that start with the success
\* marker of the service.
pull_request_urls(rs) ==
    SelectSeq(rs, LAMBDA r : startswith(r, ServiceSuccessMarker))

\* services.py lines 146-152: the other results that start with the
\* failure marker of the service.
errors(rs) ==
    SelectSeq(rs, LAMBDA r : /\ ~startswith(r, ServiceSuccessMarker)
                             /\ startswith(r, ServiceFailureMarker))

\* services.py line 154
success(rs) == Len(pull_request_urls(rs)) > 0 /\ Len(errors(rs)) = 0

\* services.py lines 157-169: the row of a successful apply.
applied(r, rs) ==
    [r EXCEPT !.status = "applied", !.applied_at = TRUE,
              !.pr_url = pull_request_urls(rs)[1].url,
              !.proposal_data = "with applied_changes"]

\* services.py lines 142-176: the classification of the results, the
\* update of the row and the dict returned.
apply_proposal_changes_finish ==
    /\ pc = "classify"
    /\ row' = IF success(results) THEN applied(row, results) ELSE row
    /\ ret' = Returned(success(results),
                       IF success(results) THEN "Applied changes successfully"
                       ELSE "Some changes failed to apply",
                       pull_request_urls(results), errors(results), TRUE)
    /\ pc' = "done"
    /\ UNCHANGED <<proposal, change_indices, changes, i, file_path, cur,
                   results, raised, main, branches, pulls, clock, writes>>
    /\ UNCHANGED <<lifeVars, analyzeVars, pureVars, serviceVars>>

\* Another actor creates, rewrites or removes a file of the default branch
\* while the unit runs.
OtherActorWrite ==
    /\ pc \in {"item", "branch", "commit"}
    /\ writes < MaxWrites
    /\ writes' = writes + 1
    /\ \E p \in Paths, f \in OtherFiles :
          /\ main[p] # f
          /\ main' = [main EXCEPT ![p] = f]
    /\ UNCHANGED <<proposal, change_indices, pc, changes, i, file_path, cur,
                   results, raised, ret, row, branches, pulls, clock>>
    /\ UNCHANGED <<lifeVars, analyzeVars, pureVars, serviceVars>>

----------------------------------------------------------------------------
(* analyze_feedback: the model's final text, the extraction of the JSON    *)
(* object from it, and the documents returned.                             *)

\* The text the executor returns is a sequence of tokens: a brace, a line
\* break, a run of prose, or a run of "key": value pairs separated by
\* commas, named by the keys it carries.
PairTokens == {"all_four", "feedback_analysis", "error"}

Tokens == {"{", "}", NL, "prose"} \cup PairTokens

ExpectedKeys == {"feedback_analysis", "files_to_examine", "proposed_changes",
                 "additional_recommendations"}

keys_of(tok) == IF tok = "all_four" THEN ExpectedKeys ELSE {tok}

Responses == UNION {[1..n -> Tokens] : n \in 0..MaxLen}

Feedbacks == {"dark mode", "login fails"}

\* A returned document: its top-level keys, and what is stored under
\* error, feedback and raw_response and the object parsed (empty when the
\* document has no such part).
NoDoc == [keys |-> {}, error |-> "", feedback |-> "", raw_response |-> <<>>,
          parsed |-> <<>>]

\* re.search(r'\{.*\}', response_text, re.DOTALL): from the first opening
\* brace to the last closing brace after it.
Opens(text) == {k \in 1..Len(text) : text[k] = "{"}

Closes(text) == {k \in 1..Len(text) : text[k] = "}"}

Min(S) == CHOOSE k \in S : \A j \in S : k <= j

Max(S) == CHOOSE k \in S : \A j \in S : k >= j

json_match(text) ==
    /\ Opens(text) # {}
    /\ \E k \in Closes(text) : k > Min(Opens(text))

\* A faulty variant of group: the span ends at the first closing brace
\* after the first opening brace (the non-greedy pattern).
group_shortest(text) ==
    SubSeq(text, Min(Opens(text)),
           Min({k \in Closes(text) : k > Min(Opens(text))}))

group(text) == SubSeq(text, Min(Opens(text)), Max(Closes(text)))

RECURSIVE SkipSpace(_)
\* \s* after a line break: the white space that follows it.
SkipSpace(t) ==
    IF t # <<>> /\ Head(t) \in {NL, " "} THEN SkipSpace(Tail(t)) ELSE t

RECURSIVE sub_newlines(_)
\* re.sub(r'\n\s*', ' ', json_str)
sub_newlines(t) ==
    IF t = <<>> THEN <<>>
    ELSE IF Head(t) = NL THEN <<" ">> \o sub_newlines(SkipSpace(Tail(t)))
    ELSE <<Head(t)>> \o sub_newlines(Tail(t))

\* json.loads skips white space between the tokens of the document.
NoSpace(t) == SelectSeq(t, LAMBDA tok : tok \notin {NL, " "})

\* The nesting depth after the first k tokens.
Depth(u, k) ==
    Cardinality({j \in 1..k : u[j] = "{"}) -
    Cardinality({j \in 1..k : u[j] = "}"})

\* json.loads gives a dict when the string is one object: runs of pairs
\* and, as values of its pairs, nested objects (the entries of
\* proposed_changes), each after a pair or after another nested object.
loads_ok(t) ==
    LET u == NoSpace(t)
    IN  /\ Len(u) >= 2
        /\ u[1] = "{"
        /\ u[Len(u)] = "}"
        /\ \A k \in 1..Len(u) : u[k] \in PairTokens \cup {"{", "}"}
        /\ \A k \in 1..(Len(u) - 1) : Depth(u, k) >= 1
        /\ Depth(u, Len(u)) = 0
        /\ \A k \in 2..Len(u) : u[k] = "{" => u[k - 1] # "{"

\* The top-level keys of the object parsed.
loads(t) ==
    LET u == NoSpace(t)
    IN  UNION {keys_of(u[k]) :
                  k \in {j \in 1..Len(u) :
                             u[j] \in PairTokens /\ Depth(u, j) = 1}}

\* A faulty variant of ParsingFailedDoc: the cleaned string is stored in
\* the place of the text the executor returned.
ParsingFailedDocCleaned(text) ==
    [keys |-> {"error", "raw_response", "attempted_cleanup"},
     error |-> "JSON parsing failed: str(e)",
     feedback |-> "", raw_response |-> sub_newlines(text), parsed |-> <<>>]

\* agent.py lines 256-260
ParsingFailedDoc(text) ==
    [keys |-> {"error", "raw_response", "attempted_cleanup"},
     error |-> "JSON parsing failed: str(e)",
     feedback |-> "", raw_response |-> text, parsed |-> <<>>]

\* agent.py lines 262-265
CouldNotParseDoc(text) ==
    [keys |-> {"error", "raw_response"},
     error |-> "Could not parse JSON response", feedback |-> "",
     raw_response |-> text, parsed |-> <<>>]

\* agent.py lines 266-270 and services.py lines 58-62
ErrorDoc(text) ==
    [keys |-> {"error", "feedback"}, error |-> "analysis failed: str(e)",
     feedback |-> text, raw_response |-> <<>>, parsed |-> <<>>]

\* agent.py line 253: the parsed object is returned as it is.
ParsedDoc(t) ==
    [keys |-> loads(t), error |-> "", feedback |-> "", raw_response |-> <<>>,
     parsed |-> NoSpace(t)]

AnalyzeIdle ==
    /\ feedback_text = ""
    /\ response = <<>>
    /\ json_str = <<>>
    /\ doc = NoDoc
    /\ apc = "idle"
    /\ escaped = FALSE

\* agent.py line 185 under services.py lines 47-62: the listing is outside
\* the agent's try; list_all_files passes over a GithubException, another
\* exception leaves the agent and is caught by the service.
analyze_feedback_list_all_files(end) ==
    /\ apc = "list"
    /\ IF end = "other"
       THEN /\ escaped' = TRUE
            /\ doc' = ErrorDoc(feedback_text)
            /\ apc' = "done"
       ELSE /\ apc' = "invoke"
            /\ UNCHANGED <<doc, escaped>>
    /\ UNCHANGED <<feedback_text, response, json_str>>
    /\ UNCHANGED <<applyVars, lifeVars, pureVars, serviceVars>>

\* agent.py lines 239-242 and 266-270: the executor returns the text, or
\* an exception of the tool loop is turned into the error document.
analyze_feedback_invoke(raises, out) ==
    /\ apc = "invoke"
    /\ IF raises
       THEN /\ doc' = ErrorDoc(feedback_text)
            /\ apc' = "done"
            /\ UNCHANGED response
       ELSE /\ response' = out
            /\ apc' = "search"
            /\ UNCHANGED doc
    /\ UNCHANGED <<feedback_text, json_str, escaped>>
    /\ UNCHANGED <<applyVars, lifeVars, pureVars, serviceVars>>

\* agent.py lines 244-248 and 261-265
analyze_feedback_search ==
    /\ apc = "search"
    /\ IF json_match(response)
       THEN /\ json_str' = group(response)
            /\ apc' = "loads"
            /\ UNCHANGED doc
       ELSE /\ doc' = CouldNotParseDoc(response)
            /\ apc' = "done"
            /\ UNCHANGED json_str
    /\ UNCHANGED <<feedback_text, response, escaped>>
    /\ UNCHANGED <<applyVars, lifeVars, pureVars, serviceVars>>

\* agent.py lines 250-260
analyze_feedback_loads ==
    /\ apc = "loads"
    /\ json_str' = sub_newlines(json_str)
    /\ doc' = IF loads_ok(sub_newlines(json_str))
              THEN ParsedDoc(sub_newlines(json_str))
              ELSE ParsingFailedDoc(response)
    /\ apc' = "done"
    /\ UNCHANGED <<feedback_text, response, escaped>>
    /\ UNCHANGED <<applyVars, lifeVars, pureVars, serviceVars>>

----------------------------------------------------------------------------
(* Single calls of the pure parts: the edit of apply_changes,              *)
(* validate_proposal and find_file_with_code, on inputs drawn from small   *)
(* sets.                                                                   *)

\* The texts of at most MaxText characters over a, b and the line break.
Texts == UNION {[1..n -> {"a", "b", NL}] : n \in 0..MaxText}

\* The line_number values of the edits; a change may also have none.
LineNumbers == (-1)..(MaxText + 1)

EditChange(change_type) ==
    [file_path |-> "f", change_type |-> change_type, new_code |-> <<"X">>,
     reason |-> "r"]

EditChangeAt(change_type, line_number) ==
    [file_path |-> "f", change_type |-> change_type, new_code |-> <<"X">>,
     reason |-> "r", line_number |-> line_number]

EditChanges ==
    {EditChange(t) : t \in KnownTypes} \cup
    {EditChangeAt(t, n) : t \in KnownTypes, n \in LineNumbers}

\* The entries of proposed_changes handed to validate_proposal: one with
\* the four required fields, one lacking new_code, one lacking file_path.
ValidationPool ==
    { [file_path |-> "f", change_type |-> "add", new_code |-> <<"X">>,
       reason |-> "r"],
      [file_path |-> "f", change_type |-> "add", reason |-> "r"],
      [change_type |-> "add", new_code |-> <<"X">>, reason |-> "r"] }

DocumentKeys == {"error", "feedback_analysis", "proposed_changes"}

\* A document is the set of its top-level keys with the list stored under
\* proposed_changes (empty when the key is absent).
Documents ==
    {d \in [keys : SUBSET DocumentKeys,
            proposed_changes :
                UNION {[1..n -> ValidationPool] : n \in 0..MaxItems}] :
        "proposed_changes" \notin d.keys => d.proposed_changes = <<>>}

\* A faulty variant of validate_proposal: only the first entry of
\* proposed_changes is looked at.
validate_proposal_first_entry(d) ==
    /\ "error" \notin d.keys
    /\ {"feedback_analysis", "proposed_changes"} \subseteq d.keys
    /\ d.proposed_changes # <<>> =>
           \A field \in RequiredChangeFields :
               Has(d.proposed_changes[1], field)

\* agent.py lines 272-286
validate_proposal(d) ==
    IF "error" \in d.keys THEN FALSE
    ELSE IF ~({"feedback_analysis", "proposed_changes"} \subseteq d.keys)
    THEN FALSE
    ELSE \A k \in 1..Len(d.proposed_changes) :
             \A field \in RequiredChangeFields :
                 Has(d.proposed_changes[k], field)

\* The contents of a file of the searched branch.
FindFiles ==
    {NoFile, File(<<"b">>), File(<<"a", NL, "b">>), File(<<"q">>)}

Snippets == {<<>>, <<"b">>, <<"q">>, <<"a", NL>>}

NoDocument == [keys |-> {}, proposed_changes |-> <<>>]

\* A listing of the repository: for every directory of the default branch
\* the entries get_contents returns for it, in the order it returns them.
Entry(type, path) == [type |-> type, path |-> path]

Dirs == {"", "d", "d/e"}

ListTrees ==
    { [p \in Dirs |->
          CASE p = "" -> <<Entry("file", "f"), Entry("dir", "d"),
                           Entry("file", "g")>>
            [] p = "d" -> <<Entry("file", "d/x"), Entry("dir", "d/e"),
                            Entry("file", "d/z")>>
            [] p = "d/e" -> <<Entry("file", "d/e/y")>>],
      [p \in Dirs |->
          CASE p = "" -> <<Entry("dir", "d"), Entry("symlink", "s"),
                           Entry("file", "f")>>
            [] p = "d" -> <<Entry("dir", "d/e")>>
            [] p = "d/e" -> <<Entry("file", "d/e/y"), Entry("file", "d/e/z")>>] }

Listed(files) == [raises |-> FALSE, files |-> files]

\* An exception that is no GithubException leaves list_all_files.
ListingRaised == [raises |-> TRUE, files |-> <<>>]

RECURSIVE list_all_files(_, _, _)
RECURSIVE list_items(_, _, _)
\* agent.py lines 293-297: the for loop over the entries; the call for a
\* directory is inside the try of the caller, which catches GithubException
\* only.
list_items(tree, ends, contents) ==
    IF contents = <<>> THEN Listed(<<>>)
    ELSE LET item == Head(contents)
             first == IF item.type = "dir"
                      THEN list_all_files(tree, ends, item.path)
                      ELSE IF item.type = "file" THEN Listed(<<item.path>>)
                      ELSE Listed(<<>>)
         IN  IF first.raises THEN ListingRaised
             ELSE LET rest == list_items(tree, ends, Tail(contents))
                  IN  IF rest.raises THEN ListingRaised
                      ELSE Listed(first.files \o rest.files)

\* agent.py lines 288-300: get_contents(path) ends normally, with a
\* GithubException (passed over: the files collected so far, none, are
\* returned) or with another exception (which leaves the function).
list_all_files(tree, ends, path) ==
    IF ends[path] = "github" THEN Listed(<<>>)
    ELSE IF ends[path] = "other" THEN ListingRaised
    ELSE list_items(tree, ends, tree[path])

\* The repository without an entry.
NoTree == [p \in Dirs |-> <<>>]

\* The values of the variables of this part while another part is looked
\* at.
PureIdle ==
    /\ fn = ""
    /\ returned = FALSE
    /\ edit_content = <<>>
    /\ edit_change = EditChange("add")
    /\ edit_out = Computed(<<>>)
    /\ val_document = NoDocument
    /\ val_out = FALSE
    /\ find_tree = InitMain
    /\ find_unreadable = {}
    /\ find_snippet = <<>>
    /\ find_out = NoPath
    /\ list_tree = NoTree
    /\ list_ends = [p \in Dirs |-> "ok"]
    /\ list_out = Listed(<<>>)

\* agent.py lines 347-367: new_content from current_content and the item.
call_edit ==
    /\ fn = "edit"
    /\ ~returned
    /\ edit_out' = new_content(edit_change, edit_content)
    /\ returned' = TRUE
    /\ UNCHANGED <<fn, edit_content, edit_change, val_document, val_out,
                   find_tree, find_unreadable, find_snippet, find_out,
                   list_tree, list_ends, list_out>>
    /\ UNCHANGED <<applyVars, lifeVars, analyzeVars, serviceVars>>

\* agent.py lines 272-286: the document is read, never written.
call_validate_proposal ==
    /\ fn = "validate_proposal"
    /\ ~returned
    /\ val_out' = validate_proposal(val_document)
    /\ returned' = TRUE
    /\ UNCHANGED <<fn, edit_content, edit_change, edit_out, val_document,
                   find_tree, find_unreadable, find_snippet, find_out,
                   list_tree, list_ends, list_out>>
    /\ UNCHANGED <<applyVars, lifeVars, analyzeVars, serviceVars>>

\* agent.py lines 302-313
call_find_file_with_code ==
    /\ fn = "find_file_with_code"
    /\ ~returned
    /\ find_out' = find_file_with_code(find_tree, find_snippet,
                                       find_unreadable)
    /\ returned' = TRUE
    /\ UNCHANGED <<fn, edit_content, edit_change, edit_out, val_document,
                   val_out, find_tree, find_unreadable, find_snippet,
                   list_tree, list_ends, list_out>>
    /\ UNCHANGED <<applyVars, lifeVars, analyzeVars, serviceVars>>

\* agent.py lines 288-300, called for the root of the repository
call_list_all_files ==
    /\ fn = "list_all_files"
    /\ ~returned
    /\ list_out' = list_all_files(list_tree, list_ends, "")
    /\ returned' = TRUE
    /\ UNCHANGED <<fn, edit_content, edit_change, edit_out, val_document,
                   val_out, find_tree, find_unreadable, find_snippet, find_out,
                   list_tree, list_ends>>
    /\ UNCHANGED <<applyVars, lifeVars, analyzeVars, serviceVars>>

\* services.py lines 215-231: the document is converted to the format of
\* the agent, with a default for each of the two keys, and validated by
\* the agent.
service_validate_proposal(d) ==
    validate_proposal(
        [keys |-> {"feedback_analysis", "proposed_changes"},
         proposed_changes |-> d.proposed_changes])

\* services.py lines 215-231
call_service_validate_proposal ==
    /\ fn = "AIAnalysisService.validate_proposal"
    /\ ~returned
    /\ val_out' = service_validate_proposal(val_document)
    /\ returned' = TRUE
    /\ UNCHANGED <<fn, edit_content, edit_change, edit_out, val_document,
                   find_tree, find_unreadable, find_snippet, find_out,
                   list_tree, list_ends, list_out>>
    /\ UNCHANGED <<applyVars, lifeVars, analyzeVars, serviceVars>>

----------------------------------------------------------------------------
(* The construction of AIAnalysisService and of its agent.  The FastAPI    *)
(* background jobs of api.py are plain functions, which run on the threads *)
(* of one process; each constructs a service for the project of its        *)
(* record.  os.environ belongs to the process.                             *)

\* The project of thread t, with its own credentials and repository.
Project(t) ==
    [github_token |-> <<"token", t>>, github_repo_path |-> <<"repo", t>>]

Threads == 1..MaxThreads

\* os.getenv of a name that is not set
Unset == <<>>

\* What os.environ holds when a job starts: nothing yet, or what an
\* earlier construction left there.
Environs ==
    {[GITHUB_TOKEN |-> Unset, GITHUB_REPO |-> Unset]} \cup
    {[GITHUB_TOKEN |-> Project(t).github_token,
      GITHUB_REPO |-> Project(t).github_repo_path] : t \in Threads}

NoAgent == [github_token |-> Unset, github_repo |-> Unset, repo |-> Unset]

NewService == [pc |-> "new", agent |-> NoAgent]

\* The values of the variables of this part while another part is looked
\* at.
ServiceIdle ==
    /\ os_environ = [GITHUB_TOKEN |-> Unset, GITHUB_REPO |-> Unset]
    /\ services = [t \in Threads |-> NewService]
    /\ accesses = {}

\* services.py lines 22-27: the fields of the service, and the token of
\* its project written to the environment of the process.
AIAnalysisService_init_token(t) ==
    /\ services[t].pc = "new"
    /\ os_environ' = [os_environ EXCEPT
                         !.GITHUB_TOKEN = Project(t).github_token]
    /\ services' = [services EXCEPT ![t].pc = "token set"]
    /\ UNCHANGED accesses
    /\ UNCHANGED <<applyVars, lifeVars, analyzeVars, pureVars>>

\* services.py line 28
AIAnalysisService_init_repo(t) ==
    /\ services[t].pc = "token set"
    /\ os_environ' = [os_environ EXCEPT
                         !.GITHUB_REPO = Project(t).github_repo_path]
    /\ services' = [services EXCEPT ![t].pc = "repo set"]
    /\ UNCHANGED accesses
    /\ UNCHANGED <<applyVars, lifeVars, analyzeVars, pureVars>>

\* agent.py line 17, entered from services.py line 32
FeedbackToFeatureAgent_init_token(t) ==
    /\ services[t].pc = "repo set"
    /\ services' = [services EXCEPT
                       ![t].pc = "token read",
                       ![t].agent.github_token = os_environ.GITHUB_TOKEN]
    /\ UNCHANGED <<os_environ, accesses>>
    /\ UNCHANGED <<applyVars, lifeVars, analyzeVars, pureVars>>

\* agent.py line 18
FeedbackToFeatureAgent_init_repo(t) ==
    /\ services[t].pc = "token read"
    /\ services' = [services EXCEPT
                       ![t].pc = "repo read",
                       ![t].agent.github_repo = os_environ.GITHUB_REPO]
    /\ UNCHANGED <<os_environ, accesses>>
    /\ UNCHANGED <<applyVars, lifeVars, analyzeVars, pureVars>>

\* agent.py lines 22-32: ValueError for a missing variable, otherwise the
\* client of the token and self.repo, the repository the name read gives.
FeedbackToFeatureAgent_init_client(t) ==
    /\ services[t].pc = "repo read"
    /\ LET a == services[t].agent
       IN  services' = [services EXCEPT ![t] =
               IF a.github_token = Unset \/ a.github_repo = Unset
               THEN [pc |-> "raised", agent |-> a]
               ELSE [pc |-> "ready",
                     agent |-> [a EXCEPT !.repo = a.github_repo]]]
    /\ UNCHANGED <<os_environ, accesses>>
    /\ UNCHANGED <<applyVars, lifeVars, analyzeVars, pureVars>>

\* The calls the service makes through its agent, a read and a write: all
\* of them go to self.repo with the client of self.github_token.
AgentCalls == {"get_contents", "update_file"}

\* agent.py lines 292, 307, 336 (reads) and 378-398 (writes)

agent_call(t, call) ==
    /\ services[t].pc = "ready"
    /\ accesses' = accesses \cup
           {[service |-> t, call |-> call,
             repo |-> services[t].agent.repo,
             token |-> services[t].agent.github_token]}
    /\ UNCHANGED <<os_environ, services>>
    /\ UNCHANGED <<applyVars, lifeVars, analyzeVars, pureVars>>

----------------------------------------------------------------------------
(* The records, the post_save receivers, the Celery tasks with their       *)
(* retries, the FastAPI jobs and the confirm_proposal view.                *)

\* @shared_task(bind=True, max_retries=3)
max_retries == 3

Message(task, id, retries) == [task |-> task, id |-> id, retries |-> retries]

\* apply_proposal_changes_task.delay(id) / analyze_feedback_task.delay(id)
delay(q, task, id) == q (+) SetToBag({Message(task, id, 0)})

\* self.retry(countdown=..., exc=exc): the task again, one retry later
retry(q, m) == q (+) SetToBag({[m EXCEPT !.retries = m.retries + 1]})

\* The message leaves the queue when a worker takes it.
taken(q, m) == q (-) SetToBag({m})

\* A faulty variant of the post_save receiver of Proposal: the status of
\* the saved instance is not looked at.
trigger_on_is_confirmed(q, id, instance) ==
    IF instance.is_confirmed THEN delay(q, "apply", id) ELSE q

\* signals.py, the post_save receiver of Proposal: the apply task is queued
\* when the saved instance is confirmed and its status is 'confirmed'.
trigger_change_application_on_proposal_confirmation(q, id, instance) ==
    IF instance.is_confirmed /\ instance.status = "confirmed"
    THEN delay(q, "apply", id) ELSE q

\* views.py lines 88-91: the placeholder written after the confirmation.
placeholder_applied(r) ==
    [r EXCEPT !.status = "applied", !.applied_at = TRUE,
              !.pr_url = <<"pull", 123, "example">>]

\* The lists of outcomes apply_changes hands back to the service in the
\* runs of the tasks and jobs: every item succeeded, every item failed, or
\* one of each.
ResultLists ==
    LET ok(k) == SuccessOutcome(k, "f", html_url(branch_name_of(k, "f")))
        no(k) == FailureOutcome("error", k, "f")
    IN  {<<ok(1)>>, <<no(1)>>, <<ok(1), no(2)>>, <<ok(1), ok(2)>>}

IdleWorker == [busy |-> FALSE, msg |-> Message("", 0, 0), copy |-> NewRow(0)]

IdleJob == [busy |-> FALSE, id |-> 0, copy |-> NewRow(0)]

IdleView == [pc |-> "idle", id |-> 0, copy |-> NewRow(0), response |-> 0]

ViewIds == 1..MaxViews

NoBudget == [redeliveries |-> 0, posts |-> 0]

\* The values of the variables of this part while only the apply unit of
\* one row is looked at.
LifeIdle ==
    /\ feedbacks = 1
    /\ rows = <<>>
    /\ queue = EmptyBag
    /\ worker = IdleWorker
    /\ views = [v \in ViewIds |-> IdleView]
    /\ job = IdleJob
    /\ units = {}
    /\ budget = NoBudget

\* The values of the variables of the apply unit while the records and
\* the triggers are looked at.
ApplyIdle ==
    /\ proposal = <<>>
    /\ change_indices = NoIndices
    /\ pc = "done"
    /\ changes = <<>>
    /\ i = 0
    /\ file_path = NoPath
    /\ cur = NoCur
    /\ results = <<>>
    /\ raised = FALSE
    /\ ret = NotReturned
    /\ row = ConfirmedRow
    /\ main = InitMain
    /\ branches = {}
    /\ pulls = {}
    /\ clock = 0
    /\ writes = 0

\* feedbacks/views.py line 34 with signals.py lines 11-21: the Feedback is
\* saved and its creation queues the analysis.
create_feedback ==
    /\ feedbacks = 0
    /\ feedbacks' = 1
    /\ queue' = delay(queue, "analyze", 1)
    /\ UNCHANGED <<rows, worker, views, job, units, budget>>
    /\ UNCHANGED <<applyVars, analyzeVars, pureVars, serviceVars>>

\* The broker delivers at least once: a message is delivered again.
redeliver(m) ==
    /\ BagIn(m, queue)
    /\ budget.redeliveries < MaxRequests
    /\ budget' = [budget EXCEPT !.redeliveries = @ + 1]
    /\ queue' = queue (+) SetToBag({m})
    /\ UNCHANGED <<feedbacks, rows, worker, views, job, units>>
    /\ UNCHANGED <<applyVars, analyzeVars, pureVars, serviceVars>>

\* tasks.py lines 56-62: Proposal.objects.get(feedback_id=...) and the
\* save with status failed, when exactly one row has the feedback
\* (DoesNotExist is passed over, MultipleObjectsReturned leaves the task).
mark_proposal_of_feedback_failed(rs, feedback_id) ==
    LET ids == {k \in 1..Len(rs) : rs[k].feedback = feedback_id}
    IN  IF Cardinality(ids) = 1
        THEN [k \in 1..Len(rs) |->
                 IF k \in ids THEN [rs[k] EXCEPT !.status = "failed"]
                 ELSE rs[k]]
        ELSE rs

\* tasks.py lines 9-64, analyze_feedback_task for one message: the
\* analysis gives a document ("created") or an error document or an
\* exception ("error").
analyze_feedback_task(m, outcome) ==
    /\ BagIn(m, queue)
    /\ m.task = "analyze"
    /\ IF outcome = "created"
       THEN /\ Len(rows) < MaxRows
            /\ rows' = Append(rows, NewRow(m.id))
            /\ queue' = taken(queue, m)
       ELSE IF m.retries < max_retries
       THEN /\ queue' = retry(taken(queue, m), m)
            /\ UNCHANGED rows
       ELSE /\ queue' = taken(queue, m)
            /\ rows' = mark_proposal_of_feedback_failed(rows, m.id)
    /\ UNCHANGED <<feedbacks, worker, views, job, units, budget>>
    /\ UNCHANGED <<applyVars, analyzeVars, pureVars, serviceVars>>

\* api.py lines 18-31 behind POST /analyze-feedback/{id}: one analysis, a
\* row when it gave a document, nothing otherwise.
analyze_feedback_job(feedback_id, outcome) ==
    /\ feedbacks >= feedback_id
    /\ budget.posts < MaxRequests
    /\ budget' = [budget EXCEPT !.posts = @ + 1]
    /\ IF outcome = "created"
       THEN /\ Len(rows) < MaxRows
            /\ rows' = Append(rows, NewRow(feedback_id))
       ELSE UNCHANGED rows
    /\ UNCHANGED <<feedbacks, queue, worker, views, job, units>>
    /\ UNCHANGED <<applyVars, analyzeVars, pureVars, serviceVars>>

\* tasks.py lines 73-82: the worker takes the message and loads the row.
apply_proposal_changes_task_start(m) ==
    /\ BagIn(m, queue)
    /\ m.task = "apply"
    /\ ~worker.busy
    /\ worker' = [busy |-> TRUE, msg |-> m, copy |-> rows[m.id]]
    /\ queue' = taken(queue, m)
    /\ UNCHANGED <<feedbacks, rows, views, job, units, budget>>
    /\ UNCHANGED <<applyVars, analyzeVars, pureVars, serviceVars>>

\* The end of an apply unit, with the attempts it took.
Unit(path, id, attempts, failed, copy) ==
    [path |-> path, id |-> id, attempts |-> attempts, failed |-> failed,
     is_confirmed |-> copy.is_confirmed]

\* tasks.py lines 83-117 with services.py lines 142-176: the outcomes are
\* classified; on success the loaded row is saved as applied; otherwise
\* the task is retried, and after the last retry the row is read again and
\* saved as failed.
apply_proposal_changes_task_finish(rs) ==
    /\ worker.busy
    /\ LET m == worker.msg
       IN  IF success(rs)
           THEN /\ rows' = [rows EXCEPT ![m.id] = applied(worker.copy, rs)]
                /\ queue' = trigger_change_application_on_proposal_confirmation(
                                queue, m.id, applied(worker.copy, rs))
                /\ units' = units \cup
                       {Unit("celery", m.id, m.retries + 1, FALSE, worker.copy)}
           ELSE IF m.retries < max_retries
           THEN /\ queue' = retry(queue, m)
                /\ UNCHANGED <<rows, units>>
           ELSE /\ rows' = [rows EXCEPT ![m.id].status = "failed"]
                /\ queue' = trigger_change_application_on_proposal_confirmation(
                                queue, m.id,
                                [rows[m.id] EXCEPT !.status = "failed"])
                /\ units' = units \cup
                       {Unit("celery", m.id, m.retries + 1, TRUE, worker.copy)}
    /\ worker' = IdleWorker
    /\ UNCHANGED <<feedbacks, views, job, budget>>
    /\ UNCHANGED <<applyVars, analyzeVars, pureVars, serviceVars>>

\* api.py lines 33-36 behind POST /apply-proposal/{id}: the job loads the
\* row.
apply_proposal_changes_job_start(id) ==
    /\ ~job.busy
    /\ id \in 1..Len(rows)
    /\ budget.posts < MaxRequests
    /\ budget' = [budget EXCEPT !.posts = @ + 1]
    /\ job' = [busy |-> TRUE, id |-> id, copy |-> rows[id]]
    /\ UNCHANGED <<feedbacks, rows, queue, worker, views, units>>
    /\ UNCHANGED <<applyVars, analyzeVars, pureVars, serviceVars>>

\* api.py lines 37-45: on success the service saved the row as applied; on
\* failure the job logs and returns.
apply_proposal_changes_job_finish(rs) ==
    /\ job.busy
    /\ IF success(rs)
       THEN /\ rows' = [rows EXCEPT ![job.id] = applied(job.copy, rs)]
            /\ queue' = trigger_change_application_on_proposal_confirmation(
                            queue, job.id, applied(job.copy, rs))
       ELSE UNCHANGED <<rows, queue>>
    /\ units' = units \cup {Unit("fastapi", job.id, 1, ~success(rs), job.copy)}
    /\ job' = IdleJob
    /\ UNCHANGED <<feedbacks, worker, views, budget>>
    /\ UNCHANGED <<applyVars, analyzeVars, pureVars, serviceVars>>

\* views.py lines 51-71: the row is loaded and the request is refused for
\* another user's project (403) or a row that is confirmed already (400).
confirm_proposal_get(v, id, owner) ==
    /\ views[v].pc = "idle"
    /\ id \in 1..Len(rows)
    /\ views' = [views EXCEPT ![v] =
           IF ~owner
           THEN [pc |-> "done", id |-> id, copy |-> rows[id],
                 response |-> 403]
           ELSE IF rows[id].is_confirmed
           THEN [pc |-> "done", id |-> id, copy |-> rows[id],
                 response |-> 400]
           ELSE [pc |-> "checked", id |-> id, copy |-> rows[id],
                 response |-> 0]]
    /\ UNCHANGED <<feedbacks, rows, queue, worker, job, units, budget>>
    /\ UNCHANGED <<applyVars, analyzeVars, pureVars, serviceVars>>

\* views.py lines 73-76: is_confirmed and status are set and the instance
\* is saved; the receiver queues the apply task.
confirm_proposal_save(v) ==
    /\ views[v].pc = "checked"
    /\ LET instance == confirmed(views[v].copy)
       IN  /\ rows' = [rows EXCEPT ![views[v].id] = instance]
           /\ queue' = trigger_change_application_on_proposal_confirmation(
                           queue, views[v].id, instance)
           /\ views' = [views EXCEPT ![v].pc = "saved", ![v].copy = instance]
    /\ UNCHANGED <<feedbacks, worker, job, units, budget>>
    /\ UNCHANGED <<applyVars, analyzeVars, pureVars, serviceVars>>

\* views.py lines 82-97: the same instance is saved as applied with the
\* placeholder URL, and the 200 response is returned.
confirm_proposal_placeholder(v) ==
    /\ views[v].pc = "saved"
    /\ LET instance == placeholder_applied(views[v].copy)
       IN  /\ rows' = [rows EXCEPT ![views[v].id] = instance]
           /\ queue' = trigger_change_application_on_proposal_confirmation(
                           queue, views[v].id, instance)
           /\ views' = [views EXCEPT ![v].pc = "done", ![v].copy = instance,
                                     ![v].response = 200]
    /\ UNCHANGED <<feedbacks, worker, job, units, budget>>
    /\ UNCHANGED <<applyVars, analyzeVars, pureVars, serviceVars>>

AnalysisEnds == {"created", "error"}

Messages ==
    {Message(t, 1, r) : t \in {"analyze"}, r \in 0..max_retries} \cup
    {Message("apply", id, r) : id \in 1..MaxRows, r \in 0..max_retries}

InitLife ==
    /\ ApplyIdle
    /\ AnalyzeIdle
    /\ PureIdle
    /\ ServiceIdle
    /\ feedbacks = 0
    /\ rows = <<>>
    /\ queue = EmptyBag
    /\ worker = IdleWorker
    /\ views = [v \in ViewIds |-> IdleView]
    /\ job = IdleJob
    /\ units = {}
    /\ budget = NoBudget

NextLife ==
    \/ create_feedback
    \/ \E m \in Messages : redeliver(m)
    \/ \E m \in Messages, outcome \in AnalysisEnds :
          analyze_feedback_task(m, outcome)
    \/ \E outcome \in AnalysisEnds : analyze_feedback_job(1, outcome)
    \/ \E m \in Messages : apply_proposal_changes_task_start(m)
    \/ \E rs \in ResultLists : apply_proposal_changes_task_finish(rs)
    \/ \E id \in 1..MaxRows : apply_proposal_changes_job_start(id)
    \/ \E rs \in ResultLists : apply_proposal_changes_job_finish(rs)
    \/ \E v \in ViewIds, id \in 1..MaxRows, owner \in BOOLEAN :
          confirm_proposal_get(v, id, owner)
    \/ \E v \in ViewIds : confirm_proposal_save(v)
    \/ \E v \in ViewIds : confirm_proposal_placeholder(v)

SpecLife == InitLife /\ [][NextLife]_vars

----------------------------------------------------------------------------
(* One call of AIAnalysisService.analyze_feedback.                         *)

InitAnalyze ==
    /\ ApplyIdle
    /\ LifeIdle
    /\ PureIdle
    /\ ServiceIdle
    /\ feedback_text \in Feedbacks
    /\ response = <<>>
    /\ json_str = <<>>
    /\ doc = NoDoc
    /\ apc = "list"
    /\ escaped = FALSE

NextAnalyze ==
    \/ \E end \in CallEnds : analyze_feedback_list_all_files(end)
    \/ /\ apc = "invoke"
       /\ \E raises \in BOOLEAN, out \in Responses :
              analyze_feedback_invoke(raises, out)
    \/ analyze_feedback_search
    \/ analyze_feedback_loads

SpecAnalyze == InitAnalyze /\ [][NextAnalyze]_vars

InitPure ==
    /\ ApplyIdle
    /\ LifeIdle
    /\ AnalyzeIdle
    /\ ServiceIdle
    /\ returned = FALSE
    /\ edit_out = Computed(<<>>)
    /\ val_out = FALSE
    /\ find_out = NoPath
    /\ list_out = Listed(<<>>)
    /\ \/ /\ fn = "list_all_files"
          /\ list_tree \in ListTrees
          /\ list_ends \in [Dirs -> CallEnds]
          /\ edit_content = <<>>
          /\ edit_change = EditChange("add")
          /\ val_document = NoDocument
          /\ find_tree = InitMain
          /\ find_unreadable = {}
          /\ find_snippet = <<>>
       \/ /\ fn = "AIAnalysisService.validate_proposal"
          /\ val_document \in Documents
          /\ edit_content = <<>>
          /\ edit_change = EditChange("add")
          /\ find_tree = InitMain
          /\ find_unreadable = {}
          /\ find_snippet = <<>>
          /\ list_tree = NoTree
          /\ list_ends = [p \in Dirs |-> "ok"]
       \/ /\ fn = "edit"
          /\ edit_content \in Texts
          /\ edit_change \in EditChanges
          /\ val_document = NoDocument
          /\ find_tree = InitMain
          /\ find_unreadable = {}
          /\ find_snippet = <<>>
          /\ list_tree = NoTree
          /\ list_ends = [p \in Dirs |-> "ok"]
       \/ /\ fn = "validate_proposal"
          /\ val_document \in Documents
          /\ edit_content = <<>>
          /\ edit_change = EditChange("add")
          /\ find_tree = InitMain
          /\ find_unreadable = {}
          /\ find_snippet = <<>>
          /\ list_tree = NoTree
          /\ list_ends = [p \in Dirs |-> "ok"]
       \/ /\ fn = "find_file_with_code"
          /\ find_tree \in [Paths -> FindFiles]
          /\ find_unreadable \in SUBSET Paths
          /\ find_snippet \in Snippets
          /\ edit_content = <<>>
          /\ edit_change = EditChange("add")
          /\ val_document = NoDocument
          /\ list_tree = NoTree
          /\ list_ends = [p \in Dirs |-> "ok"]

NextPure ==
    \/ call_edit
    \/ call_validate_proposal
    \/ call_find_file_with_code
    \/ call_list_all_files
    \/ call_service_validate_proposal

SpecPure == InitPure /\ [][NextPure]_vars

InitService ==
    /\ ApplyIdle
    /\ LifeIdle
    /\ AnalyzeIdle
    /\ PureIdle
    /\ os_environ \in Environs
    /\ services = [t \in Threads |-> NewService]
    /\ accesses = {}

NextService ==
    \/ \E t \in Threads : AIAnalysisService_init_token(t)
    \/ \E t \in Threads : AIAnalysisService_init_repo(t)
    \/ \E t \in Threads : FeedbackToFeatureAgent_init_token(t)
    \/ \E t \in Threads : FeedbackToFeatureAgent_init_repo(t)
    \/ \E t \in Threads : FeedbackToFeatureAgent_init_client(t)
    \/ \E t \in Threads, call \in AgentCalls : agent_call(t, call)

SpecService == InitService /\ [][NextService]_vars

----------------------------------------------------------------------------
(* The apply unit of one confirmed row against the repository.             *)

Init ==
    /\ proposal \in Proposals
    /\ change_indices \in IndexChoices(proposal)
    /\ pc = "start"
    /\ changes = <<>>
    /\ i = 0
    /\ file_path = NoPath
    /\ cur = NoCur
    /\ results = <<>>
    /\ raised = FALSE
    /\ ret = NotReturned
    /\ row = ConfirmedRow
    /\ main = InitMain
    /\ branches = {}
    /\ pulls = {}
    /\ clock = 0
    /\ writes = 0
    /\ LifeIdle
    /\ AnalyzeIdle
    /\ PureIdle
    /\ ServiceIdle

Next ==
    \/ apply_proposal_changes_start
    \/ apply_changes_read
    \/ apply_changes_branch
    \/ apply_changes_commit
    \/ apply_changes_pull
    \/ apply_proposal_changes_finish
    \/ OtherActorWrite

Spec == Init /\ [][Next]_vars

----------------------------------------------------------------------------
(* The apply task of one confirmed row with its retries, each attempt      *)
(* running the apply unit against the same repository.                     *)

\* tasks.py lines 83-117 after apply_proposal_changes has returned: the
\* task returns on success; otherwise it raises, and the except clause
\* retries it (a new attempt loads the row and calls the service again,
\* with every item of the proposal) or, after the last retry, saves the
\* row as failed.
apply_proposal_changes_task_return ==
    /\ pc = "done"
    /\ worker.busy
    /\ IF ret.success
       THEN /\ worker' = IdleWorker
            /\ rows' = [rows EXCEPT ![worker.msg.id] = row]
            /\ units' = units \cup
                   {Unit("celery", worker.msg.id, worker.msg.retries + 1,
                         FALSE, worker.copy)}
            /\ UNCHANGED <<pc, changes, i, file_path, cur, results, raised,
                           ret>>
       ELSE IF worker.msg.retries < max_retries
       THEN /\ worker' = [worker EXCEPT !.msg.retries = @ + 1]
            /\ pc' = "start"
            /\ changes' = <<>>
            /\ i' = 0
            /\ file_path' = NoPath
            /\ cur' = NoCur
            /\ results' = <<>>
            /\ raised' = FALSE
            /\ ret' = NotReturned
            /\ UNCHANGED <<rows, units>>
       ELSE /\ worker' = IdleWorker
            /\ rows' = [rows EXCEPT ![worker.msg.id].status = "failed"]
            /\ units' = units \cup
                   {Unit("celery", worker.msg.id, worker.msg.retries + 1,
                         TRUE, worker.copy)}
            /\ UNCHANGED <<pc, changes, i, file_path, cur, results, raised,
                           ret>>
    /\ UNCHANGED <<proposal, change_indices, row, main, branches, pulls,
                   clock, writes>>
    /\ UNCHANGED <<feedbacks, queue, views, job, budget>>
    /\ UNCHANGED <<analyzeVars, pureVars, serviceVars>>

\* The items of the proposals the task is retried on: an add that can
\* succeed, an item of an unknown type and a modify of a missing file.
RetryPool ==
    {c \in ItemPool :
        /\ HasRequired(c)
        /\ ~Has(c, "line_number")
        /\ ~Has(c, "current_code")}

RetryProposals == UNION {[1..n -> RetryPool] : n \in 1..MaxItems}

\* The worker has taken the apply message of the confirmed row; the task
\* passes no change_indices.
InitRetry ==
    /\ proposal \in RetryProposals
    /\ change_indices = NoIndices
    /\ pc = "start"
    /\ changes = <<>>
    /\ i = 0
    /\ file_path = NoPath
    /\ cur = NoCur
    /\ results = <<>>
    /\ raised = FALSE
    /\ ret = NotReturned
    /\ row = ConfirmedRow
    /\ main = InitMain
    /\ branches = {}
    /\ pulls = {}
    /\ clock = 0
    /\ writes = 0
    /\ feedbacks = 1
    /\ rows = <<ConfirmedRow>>
    /\ queue = EmptyBag
    /\ worker = [busy |-> TRUE, msg |-> Message("apply", 1, 0),
                 copy |-> ConfirmedRow]
    /\ views = [v \in ViewIds |-> IdleView]
    /\ job = IdleJob
    /\ units = {}
    /\ budget = NoBudget
    /\ AnalyzeIdle
    /\ PureIdle
    /\ ServiceIdle

\* The attempts run while no other actor writes to the repository.
NextRetry ==
    \/ apply_proposal_changes_start
    \/ apply_changes_read
    \/ apply_changes_branch
    \/ apply_changes_commit
    \/ apply_changes_pull
    \/ apply_proposal_changes_finish
    \/ apply_proposal_changes_task_return

SpecRetry == InitRetry /\ [][NextRetry]_vars

----------------------------------------------------------------------------
(* Claims about apply_changes and apply_proposal_changes, under Spec.      *)

\* apply_changes has returned or raised.
AgentLeft == pc = "classify" \/ (pc = "done" /\ ret.called)

\* C1: for a list of n change items, whatever keys the items lack and
\* whichever gateway calls fail, apply_changes returns without raising,
\* with exactly n outcomes, the k-th one about the k-th item.
C1_OneOutcomePerItemNeverRaises ==
    AgentLeft =>
        /\ ~raised
        /\ Len(results) = Len(changes)
        /\ \A k \in 1..Len(results) : results[k].item = k

\* Every outcome apply_changes returned is a success with its pull request.
AllSucceeded ==
    /\ ~raised
    /\ results # <<>>
    /\ \A k \in 1..Len(results) :
          /\ results[k].marker = AgentSuccessMarker
          /\ \E q \in pulls : html_url(q.head) = results[k].url

\* C2: apply_proposal_changes reports success exactly when every item that
\* apply_changes attempted succeeded and at least one pull request was
\* created; for an empty proposed_changes, or indices none of which is
\* valid, it returns a failure without calling apply_changes.
C2_SuccessIffAllItemsSucceeded ==
    ret.returned =>
        /\ ret.success <=> (ret.called /\ AllSucceeded)
        /\ (proposal = <<>> \/ (change_indices.given
                                /\ filtered(proposal, change_indices.idx) = <<>>))
              => (~ret.called /\ ~ret.success)

TargetAbsent(change, m) ==
    /\ ~m[change.file_path].exists
    /\ ~find_file_with_code(m, current_code_of(change), {}).bound

\* The loop body runs for changes[i] up to where it leaves or goes on to
\* the branch creation.
ReadTaken == pc = "item" /\ (pc' # "item" \/ i' # i)

\* C6: an item with its required fields whose file does not exist while
\* its type is not add, or whose type is none of add, modify and delete,
\* gets exactly one failure outcome, no branch, commit or pull request, and
\* the loop goes on with the next item.
C6_RejectedItemFailsAlone ==
    [][(/\ ReadTaken
        /\ HasRequired(changes[i])
        /\ \/ changes[i].change_type \notin KnownTypes
           \/ /\ changes[i].change_type # "add"
              /\ TargetAbsent(changes[i], main))
       => /\ Len(results') = Len(results) + 1
          /\ SubSeq(results', 1, Len(results)) = results
          /\ Last(results').marker = AgentFailureMarker
          /\ Last(results').item = i
          /\ branches' = branches
          /\ pulls' = pulls
          /\ ~raised'
          /\ i' = i + 1
          /\ pc' = IF i < Len(changes) THEN "item" ELSE "classify"]_vars

\* Such an item failed and the item after it led to a pull request.
C6_Witness ==
    \E k \in 1..Len(results) :
        /\ results[k].kind \in {"unknown", "notfound"}
        /\ Len(results) > k
        /\ results[k + 1].kind = "pr"
        /\ \A b \in branches : b.item # k

\* line_number designates a line of the content (for add: a line or the
\* position after the last one).
LineInRange(change, content) ==
    LET n == Len(splitlines(content))
    IN  HasLine(change) =>
            /\ change.line_number >= 1
            /\ change.line_number <=
                   IF change.change_type = "add" THEN n + 1 ELSE n

\* C7: an item whose line_number designates no valid position of the file
\* gets a failure outcome and nothing is committed for it.
C7_LineOutOfRangeNotCommitted ==
    pc = "pr" => LineInRange(changes[i], cur.read.content)

\* C8: a stored proposal with an item that lacks a required field leads
\* to no branch, no commit and no pull request at all.
C8_MalformedProposalNoMutation ==
    (\E k \in 1..Len(proposal) : ~HasRequired(proposal[k]))
        => (branches = {} /\ pulls = {})

\* The status moves the lifecycle pending -> confirmed -> applied | failed
\* allows.
AllowedMoves ==
    {<<"pending", "confirmed">>, <<"confirmed", "applied">>,
     <<"confirmed", "failed">>}

\* C3: under every interleaving of the confirm_proposal view, the apply
\* task with its retries and redelivered triggers, and the analysis task,
\* the status of a Proposal changes only along pending -> confirmed,
\* confirmed -> applied and confirmed -> failed, and never changes once it
\* is applied or failed.
C3_StatusMovesOnlyAlongLifecycle ==
    [][\A p \in 1..Len(rows) :
          \/ rows'[p].status = rows[p].status
          \/ <<rows[p].status, rows'[p].status>> \in AllowedMoves]_vars

\* C4: when every attempt of the apply unit of a confirmed proposal has
\* failed, the unit was attempted at most 1 + max_retries times and it
\* ends with the status of the proposal failed, on the Celery path and on
\* the FastAPI path alike.
C4_FailedUnitBoundedAndMarkedFailed ==
    [][\A u \in units' \ units :
          (u.failed /\ u.is_confirmed) =>
              /\ u.attempts <= 1 + max_retries
              /\ rows'[u.id].status = "failed"]_vars

\* C9: analyze_feedback returns without raising, and the document it
\* returns has the four keys feedback_analysis, files_to_examine,
\* proposed_changes and additional_recommendations, or has an error key
\* together with the original feedback text.
C9_ProposalOrErrorWithFeedback ==
    apc = "done" =>
        \/ ExpectedKeys \subseteq doc.keys
        \/ /\ {"error", "feedback"} \subseteq doc.keys
           /\ doc.feedback = feedback_text

\* C10: a run of the analysis unit, first or repeated, successful or
\* failed, leaves the Proposals of earlier runs as they were; a successful
\* run adds exactly one Proposal with status pending, a failed run adds
\* none.
C10_AnalysisRunLeavesEarlierProposals ==
    [][\A outcome \in AnalysisEnds :
          (\/ \E m \in Messages : analyze_feedback_task(m, outcome)
           \/ analyze_feedback_job(1, outcome)) =>
              /\ SubSeq(rows', 1, Len(rows)) = rows
              /\ outcome = "created" =>
                     /\ Len(rows') = Len(rows) + 1
                     /\ rows'[Len(rows')].status = "pending"
              /\ outcome = "error" => Len(rows') = Len(rows)]_vars

\* The branch of changes[i] is being created (or its creation fails).
BranchTaken == pc = "branch" /\ pc' # "branch"

\* C11: within one run of apply_changes no two items are given the same
\* branch name, whatever their paths and however little time passes between
\* them: the name computed for an item is the name of no branch an earlier
\* item of the run created.
C11_BranchNamesDistinctWithinRun ==
    [][BranchTaken =>
          \A b \in branches :
              b.name # branch_name_of(clock', file_path.v)]_vars

----------------------------------------------------------------------------
(* Claims about single calls of the pure parts, under SpecPure.            *)

\* The edit has returned for an item of this type.
Edited(change_type) ==
    fn = "edit" /\ returned /\ edit_change.change_type = change_type

\* line_number designates one of the lines of the content read.
LineOfContent ==
    /\ HasLine(edit_change)
    /\ edit_change.line_number \in 1..Len(splitlines(edit_content))

\* C12: for a modify or delete item whose line_number n is one of the
\* lines of the content read, the lines of the committed content are the
\* lines read with exactly line n replaced by new_code (modify) or removed
\* (delete); every other line keeps its text and its place.
C12_OnlyLineNChanges ==
    ((Edited("modify") \/ Edited("delete")) /\ LineOfContent) =>
        LET lines == splitlines(edit_content)
            n == edit_change.line_number
        IN  /\ ~edit_out.raises
            /\ splitlines(edit_out.content) =
                   IF edit_change.change_type = "modify"
                   THEN [lines EXCEPT ![n] = edit_change.new_code]
                   ELSE SubSeq(lines, 1, n - 1) \o
                        SubSeq(lines, n + 1, Len(lines))

\* C13: for an add item, whatever the current content (non-empty, empty
\* for a file that does not exist yet, or ending with a line break), the
\* lines of the committed content are the lines read, in their order, with
\* new_code as exactly one more line: at index line_number - 1 when a
\* line_number in 1..lines + 1 is given, as the last line when none is.
C13_AddInsertsExactlyOneLine ==
    (/\ Edited("add")
     /\ HasLine(edit_change) =>
            edit_change.line_number \in 1..(Len(splitlines(edit_content)) + 1))
    => LET lines == splitlines(edit_content)
           k == IF HasLine(edit_change) THEN edit_change.line_number - 1
                ELSE Len(lines)
       IN  /\ ~edit_out.raises
           /\ splitlines(edit_out.content) =
                  SubSeq(lines, 1, k) \o <<edit_change.new_code>> \o
                  SubSeq(lines, k + 1, Len(lines))

\* validate_proposal returns.
ValidateReturns == fn = "validate_proposal" /\ ~returned /\ returned'

\* C14: validate_proposal returns true exactly when the document has no
\* error key, has feedback_analysis and proposed_changes, and every entry
\* of proposed_changes has file_path, change_type, new_code and reason; one
\* entry lacking new_code makes it return false whatever the other entries
\* are; the document is left as it was.
C14_ValidateProposalExact ==
    [][ValidateReturns =>
          LET d == val_document
              entries == 1..Len(d.proposed_changes)
          IN  /\ val_out' <=>
                     /\ "error" \notin d.keys
                     /\ "feedback_analysis" \in d.keys
                     /\ "proposed_changes" \in d.keys
                     /\ \A k \in entries :
                            {"file_path", "change_type", "new_code", "reason"}
                                \subseteq DOMAIN d.proposed_changes[k]
              /\ (\E k \in entries : ~Has(d.proposed_changes[k], "new_code"))
                     => ~val_out'
              /\ val_document' = val_document]_vars

\* validate_proposal returned false for a document that has no error key
\* and both required keys, whose first entry is well formed and whose second
\* entry lacks new_code.
C14_Witness ==
    /\ fn = "validate_proposal"
    /\ returned
    /\ ~val_out
    /\ val_document.keys = {"feedback_analysis", "proposed_changes"}
    /\ Len(val_document.proposed_changes) = 2
    /\ HasRequired(val_document.proposed_changes[1])
    /\ ~Has(val_document.proposed_changes[2], "new_code")

\* The listed paths find_file_with_code can read whose content contains
\* the snippet, as positions of the traversal order.
Matches ==
    {k \in 1..Len(PathOrder) :
        /\ find_tree[PathOrder[k]].exists
        /\ PathOrder[k] \notin find_unreadable
        /\ \E at \in 1..Len(find_tree[PathOrder[k]].content) :
               /\ at + Len(find_snippet) - 1
                      <= Len(find_tree[PathOrder[k]].content)
               /\ SubSeq(find_tree[PathOrder[k]].content, at,
                         at + Len(find_snippet) - 1) = find_snippet}

\* C16: find_file_with_code returns the first path, in traversal order,
\* whose read succeeds and whose content contains the snippet as an exact
\* substring; it returns None when no file matches or the snippet is empty.
C16_FirstReadableFileContainingSnippet ==
    (fn = "find_file_with_code" /\ returned) =>
        IF find_snippet = <<>> \/ Matches = {}
        THEN ~find_out.bound
        ELSE /\ find_out.bound
             /\ \E k \in Matches :
                   /\ find_out.v = PathOrder[k]
                   /\ \A j \in Matches : k <= j

\* Both files contain the snippet, the read of the first one fails, and
\* the second one is returned.
C16_Witness ==
    /\ fn = "find_file_with_code"
    /\ returned
    /\ find_snippet # <<>>
    /\ \A p \in Paths : contains(find_tree[p].content, find_snippet)
    /\ find_unreadable = {PathOrder[1]}
    /\ find_out = Bound(PathOrder[2])

----------------------------------------------------------------------------
(* Claims about the extraction and the parse in analyze_feedback, under    *)
(* SpecAnalyze.                                                            *)

\* The search for the brace span is made.
SearchTaken == apc = "search" /\ apc' # "search"

\* The cleaned span is handed to json.loads.
LoadsTaken == apc = "loads" /\ apc' # "loads"

\* C15: when the output holds a brace span that does not parse as JSON,
\* analyze_feedback returns an error document with the parser's message and
\* the raw output unmodified; when it holds no brace span, it returns the
\* 'could not parse' error document with the raw output; it does not raise
\* in either case.
C15_ParseFailureCarriesRawOutput ==
    [][/\ (SearchTaken /\ ~json_match(response)) =>
              /\ apc' = "done"
              /\ ~escaped'
              /\ doc'.keys = {"error", "raw_response"}
              /\ doc'.error = "Could not parse JSON response"
              /\ doc'.raw_response = response
       /\ (LoadsTaken /\ ~loads_ok(group(response))) =>
              /\ apc' = "done"
              /\ ~escaped'
              /\ {"error", "raw_response"} \subseteq doc'.keys
              /\ doc'.error = "JSON parsing failed: str(e)"
              /\ doc'.raw_response = response]_vars

\* The brace span held a line break and did not parse: the document
\* returned carries the output as the executor gave it, not the cleaned
\* string.
C15_Witness ==
    /\ apc = "done"
    /\ "attempted_cleanup" \in doc.keys
    /\ json_match(response)
    /\ \E k \in 1..Len(group(response)) : group(response)[k] = NL
    /\ json_str # group(response)
    /\ doc.raw_response = response

\* The output is exactly one valid JSON object on a single line with the
\* four keys of a ChangeProposal, without white space between its tokens.
MinifiedProposal(text) ==
    /\ loads_ok(text)
    /\ NoSpace(text) = text
    /\ ExpectedKeys \subseteq loads(text)

\* C18: when the output is exactly a minified, single-line, valid JSON
\* ChangeProposal, the extraction and the clean-up leave it unchanged and
\* the document returned is the direct parse of the output.
C18_MinifiedProposalUnchanged ==
    [][/\ (SearchTaken /\ MinifiedProposal(response)) =>
              /\ apc' = "loads"
              /\ json_str' = response
       /\ (LoadsTaken /\ MinifiedProposal(response)) =>
              /\ json_str = response
              /\ json_str' = response
              /\ apc' = "done"
              /\ doc' = ParsedDoc(response)]_vars

\* A minified proposal with a nested object was returned as parsed.
C18_Witness ==
    /\ apc = "done"
    /\ MinifiedProposal(response)
    /\ \E k \in 2..Len(response) : response[k] = "{"
    /\ doc = ParsedDoc(response)
    /\ doc.parsed = response

----------------------------------------------------------------------------
(* Claims about the classification of the outcomes and about retries.      *)

\* C20: every outcome apply_changes produced is classified by
\* apply_proposal_changes as exactly one of success or failure, by the
\* marker the agent wrote: the pull-request URLs collected and the errors
\* collected are together as many as the outcomes returned.
C20_EveryOutcomeClassified ==
    (ret.returned /\ ret.called /\ ~raised) =>
        /\ Len(ret.pull_request_urls) + Len(ret.errors) = Len(results)
        /\ \A k \in 1..Len(results) :
              /\ results[k].marker = AgentSuccessMarker
                     <=> startswith(results[k], ServiceSuccessMarker)
              /\ results[k].marker = AgentFailureMarker
                     <=> startswith(results[k], ServiceFailureMarker)

C19_OneBranchAndPullPerItem ==
    \A k \in 1..Len(proposal) :
        /\ Cardinality({b \in branches : b.item = k}) <= 1
        /\ Cardinality({q \in pulls : q.item = k}) <= 1

----------------------------------------------------------------------------
(* Claims about the records and the triggers, under SpecLife.              *)

\* C21: a Proposal whose status is applied has had at least one pull
\* request created for it by apply_changes in an apply unit all of whose
\* items succeeded, its pr_url is the URL of the first of those pull
\* requests, and its applied_at is set.
C21_AppliedHasPullRequest ==
    \A p \in 1..Len(rows) :
        rows[p].status = "applied" =>
            /\ \E u \in units : u.id = p /\ ~u.failed
            /\ \E rs \in ResultLists :
                   /\ \A k \in 1..Len(rs) : rs[k].kind = "pr"
                   /\ rows[p].pr_url = rs[1].url
            /\ rows[p].applied_at

\* The number of trigger messages (retries = 0) of a task for an id.
Triggers(q, task, id) == CopiesIn(Message(task, id, 0), q)

\* The broker delivers a message again in this step.
Redelivered == budget'.redeliveries # budget.redeliveries

\* A post_save of Proposal p has queued the apply task in this step.
ApplyTriggered(p) ==
    ~Redelivered /\ Triggers(queue', "apply", p) > Triggers(queue, "apply", p)

\* Row p is written in this step: created, or saved with another content.
Saved(p) ==
    /\ p \in 1..Len(rows')
    /\ p \in 1..Len(rows) => rows'[p] # rows[p]

----------------------------------------------------------------------------
(* Claims about the steps of one item of apply_changes, under Spec.        *)

\* The success outcomes correspond one to one to pull requests from
\* committed branches of their items.
SuccessesHavePulls(rs, bs, qs) ==
    \A k \in 1..Len(rs) :
        rs[k].marker = AgentSuccessMarker =>
            /\ Cardinality({q \in qs : html_url(q.head) = rs[k].url}) = 1
            /\ Cardinality({q \in qs : q.item = rs[k].item}) = 1
            /\ Cardinality({b \in bs : b.item = rs[k].item}) = 1
            /\ \E b \in bs :
                   /\ html_url(b.name) = rs[k].url
                   /\ b.item = rs[k].item
                   /\ b.committed

\* C23: apply_changes never writes to the default branch; for every item
\* the steps come in the order read, creation of a new branch from the head
\* of the default branch at that moment, commit on that branch (create_file
\* when the file was absent and the type is add, update_file with the sha
\* of the read otherwise), pull request with that branch as head and main
\* as base; each success outcome corresponds to exactly one such branch,
\* one commit and one pull request.
C23_BranchCommitPullInOrder ==
    [][/\ main' # main => writes' = writes + 1
       /\ \A b \in branches' \ branches :
              \/ /\ pc = "branch"
                 /\ cur.change_type = changes[i].change_type
                 /\ cur.change_type \in KnownTypes
                 /\ b.item = i
                 /\ b.path = file_path.v
                 /\ b.name = branch_name_of(clock', file_path.v)
                 /\ \A c \in branches : c.name # b.name
                 /\ b.file = main[file_path.v]
                 /\ ~b.committed
                 /\ branches' = branches \cup {b}
              \/ /\ pc = "commit"
                 /\ b.name = cur.branch_name
                 /\ b.item = i
                 /\ b.committed
                 /\ b.file = File(cur.new_content)
                 /\ b.call = IF ~cur.read.exists /\ cur.change_type = "add"
                             THEN "create_file" ELSE "update_file"
                 /\ b.call = "update_file" => b.sha = cur.read.content
                 /\ \E c \in branches :
                        /\ c.name = b.name
                        /\ ~c.committed
                        /\ branches' = (branches \ {c}) \cup {b}
       /\ \A q \in pulls' \ pulls :
              /\ pc = "pr"
              /\ q.head = cur.branch_name
              /\ q.base = "main"
              /\ q.item = i
              /\ \E b \in branches :
                     b.name = q.head /\ b.item = i /\ b.committed
              /\ pulls' = pulls \cup {q}
       /\ SuccessesHavePulls(results', branches', pulls')]_vars

\* An add created a file on its branch and a modify updated a file on its
\* branch, each with its pull request, and the default branch is as it was.
C23_Witness ==
    /\ Len(results) = 2
    /\ \A k \in 1..2 : results[k].marker = AgentSuccessMarker
    /\ \E b \in branches, c \in branches :
           /\ b.call = "create_file"
           /\ c.call = "update_file"
           /\ b.committed /\ c.committed
    /\ Cardinality(pulls) = 2
    /\ main = InitMain

----------------------------------------------------------------------------
(* Claims about the construction of the services, under SpecService.       *)

\* C24: when the services of two different projects are constructed and
\* used concurrently in one process, the agent of each reads and writes
\* only the repository of its own project, with the token of its own
\* project, under every interleaving of the two constructions.
C24_AgentUsesOwnProject ==
    /\ \A t \in Threads :
           services[t].pc = "ready" =>
               /\ services[t].agent.repo = Project(t).github_repo_path
               /\ services[t].agent.github_token = Project(t).github_token
    /\ \A a \in accesses :
           /\ a.repo = Project(a.service).github_repo_path
           /\ a.token = Project(a.service).github_token

----------------------------------------------------------------------------
(* Further claims about apply_changes, under Spec.                         *)

\* C25: an item that ended with a failure outcome has left the repository
\* as it was before the item: when the commit or the creation of the pull
\* request fails after the branch of the item was created, that branch does
\* not remain.
C25_FailedItemLeavesNoBranch ==
    \A k \in 1..Len(results) :
        results[k].marker = AgentFailureMarker =>
            /\ \A b \in branches : b.item # results[k].item
            /\ \A q \in pulls : q.item # results[k].item

\* The loop body has read the file of changes[i] and computed new_content.
ReadDone == pc = "item" /\ pc' = "branch"

----------------------------------------------------------------------------
(* Further claims about single calls of the pure parts, under SpecPure.    *)

\* C27: for a modify or delete item without line_number whose current_code
\* is empty or absent, the content computed for the commit is the content
\* read: new_code is inserted nowhere in the text.
C27_NoAnchorNoChange ==
    ((Edited("modify") \/ Edited("delete"))
        /\ ~HasLine(edit_change)
        /\ current_code_of(edit_change) = <<>>) =>
        /\ ~edit_out.raises
        /\ edit_out.content = edit_content

----------------------------------------------------------------------------
(* Further claims about the records and the triggers, under SpecLife.      *)

\* The request of view v is answered at the check of the view.
Checked(v) == views[v].pc = "idle" /\ views'[v].pc # "idle"

\* The request of view v saves the row as confirmed.
Confirms(v) == views[v].pc = "checked" /\ views'[v].pc = "saved"

\* C28: a proposal is confirmed at most once: confirm_proposal on a
\* proposal that is confirmed already, or by a user who does not own the
\* project of the proposal, returns an error response, changes no field of
\* the proposal and triggers no apply task.
C28_ConfirmedAtMostOnce ==
    [][\A v \in ViewIds :
          /\ (Checked(v) /\ rows[views'[v].id].is_confirmed) =>
                 views'[v].response \in {400, 403}
          /\ (Checked(v) /\ views'[v].response \in {400, 403}) =>
                 /\ views'[v].pc = "done"
                 /\ rows' = rows
                 /\ queue' = queue
          /\ Confirms(v) => ~rows[views[v].id].is_confirmed]_vars

----------------------------------------------------------------------------
(* Claims about list_all_files and the validation of the service, under    *)
(* SpecPure.                                                               *)

\* The directory whose listing holds the entry of this path.
DirOf(tree, path) ==
    CHOOSE d \in Dirs : \E k \in 1..Len(tree[d]) : tree[d][k].path = path

RECURSIVE IndexPath(_, _)
\* The positions, from the root down, of the entries that lead to the path.
IndexPath(tree, path) ==
    IF path = "" THEN <<>>
    ELSE LET d == DirOf(tree, path)
             k == CHOOSE k \in 1..Len(tree[d]) : tree[d][k].path = path
         IN  IndexPath(tree, d) \o <<k>>

\* a comes before b in the depth-first traversal.
Before(a, b) ==
    \E j \in 1..Len(a) :
        /\ j <= Len(b)
        /\ a[j] < b[j]
        /\ \A m \in 1..(j - 1) : a[m] = b[m]

RECURSIVE Ancestors(_, _)
\* The directory and the directories above it.
Ancestors(tree, d) ==
    IF d = "" THEN {""} ELSE {d} \cup Ancestors(tree, DirOf(tree, d))

\* The files in directories whose listing and whose ancestors' listings
\* succeeded.
ReachableFiles(tree, ends) ==
    LET reached == {d \in Dirs : \A a \in Ancestors(tree, d) : ends[a] = "ok"}
        entries == UNION {{tree[d][k] : k \in 1..Len(tree[d])} : d \in reached}
    IN  {e.path : e \in {x \in entries : x.type = "file"}}

\* C29: list_all_files returns without raising, and returns, in the order
\* of the depth-first traversal, exactly the files of the directories whose
\* listing succeeded and whose ancestors' listings all succeeded: a directory
\* whose listing fails removes its own subtree only.
C29_ListingSkipsFailedSubtreesOnly ==
    (fn = "list_all_files" /\ returned) =>
        /\ ~list_out.raises
        /\ {list_out.files[k] : k \in 1..Len(list_out.files)} =
               ReachableFiles(list_tree, list_ends)
        /\ \A j, k \in 1..Len(list_out.files) :
               j < k => Before(IndexPath(list_tree, list_out.files[j]),
                               IndexPath(list_tree, list_out.files[k]))

\* C30: AIAnalysisService.validate_proposal gives the verdict of
\* FeedbackToFeatureAgent.validate_proposal on every document: a stored
\* document with an error key, or without feedback_analysis or
\* proposed_changes, is rejected by the service as well.
C30_ServiceValidatesAsAgent ==
    (fn = "AIAnalysisService.validate_proposal" /\ returned) =>
        /\ val_out = validate_proposal(val_document)
        /\ "error" \in val_document.keys => ~val_out
        /\ ~({"feedback_analysis", "proposed_changes"}
                 \subseteq val_document.keys) => ~val_out

====
